---------------------------- MODULE Spec2Model ----------------------------
(***************************************************************************)
(* Model of project.py, the Streamlit sales dashboard.                     *)
(*                                                                         *)
(* The script is re-executed from top to bottom on every user interaction. *)
(* What survives between executions is the st.cache_data entry of          *)
(* load_data, the state of numpy's global random generator, and the values *)
(* of the sidebar widgets.  Every action below is one interaction followed *)
(* by the complete execution of the script (lines 36-164).                 *)
(*                                                                         *)
(* Dates are day numbers counted from the epoch 2020-01-01 (day 0, a       *)
(* Wednesday).  A DataFrame is the sequence of its rows, a Series the      *)
(* sequence of its (label, value) or (key, value) entries.  chart_type and *)
(* show_table only select drawing calls (lines 104-108, 156-157) and are   *)
(* not part of the model.                                                  *)
(***************************************************************************)
EXTENDS Integers, Sequences, FiniteSets, TLC

\* ------------------------------------------------------------------ bounds
\* Rows generated by load_data (periods=100 in the source).
Count == 3
\* Number of distinct states the random generator may start in.
NumSeeds == 4
\* Largest number of rows of a view drawn for the resampling specification.
MaxView == 3

\* --------------------------------------------------------------- constants
ProductChoices == <<"Product A", "Product B", "Product C">>
RegionChoices == <<"North", "South", "East", "West">>
SalesLow == 100
SalesHigh == 1000
ProfitLow == 10
ProfitHigh == 200
\* groupby sorts its keys: the lexicographic order of the labels.
ProductKeys == <<"Product A", "Product B", "Product C">>
RegionKeys == <<"East", "North", "South", "West">>
Frequencies == {"Daily", "Weekly", "Monthly"}

VARIABLES
    rng,              \* state of numpy's global generator
    cache,            \* st.cache_data entry of load_data: <<>> or <<df>>
    page_open,        \* a browser session has executed the script
    df,               \* the script's df (a copy of the cached frame)
    start_date, end_date, regions, products,     \* filter widgets
    freq, show_cumulative,                       \* display options
    filtered_df,
    total_sales, total_profit, avg_sale,         \* KPI metrics
    sales_trend, profit_trend, sales_plot,
    top_products, region_revenue,
    csv

widgets == <<start_date, end_date, regions, products, freq, show_cumulative>>
outputs == <<filtered_df, total_sales, total_profit, avg_sale, sales_trend,
             profit_trend, sales_plot, top_products, region_revenue, csv>>
vars == <<rng, cache, page_open, df, widgets, outputs>>

\* ------------------------------------------------------- random generation
\* One step of the generator (a 16-bit linear congruential generator stands
\* for numpy's Mersenne Twister: the draws are a function of the hidden
\* generator state, which every draw advances).
RngModulus == 65536
RngNext(s) == (25173 * s + 13849) % RngModulus

RECURSIVE RngAfter(_, _)
RngAfter(s, n) == IF n = 0 THEN s ELSE RngAfter(RngNext(s), n - 1)

\* np.random.randint(low, high): the k-th draw from state s, in [low, high).
RandInt(s, k, low, high) == low + (RngAfter(s, k) * (high - low)) \div RngModulus

\* np.random.choice(seq): the k-th draw from state s.
RandChoice(s, k, seq) == seq[1 + (RngAfter(s, k) * Len(seq)) \div RngModulus]

\* The body of load_data: Count consecutive days from the epoch, then Count
\* draws for each of Product, Region, Sales, Profit, in that order.
GenerateFrame(s) ==
    [i \in 1..Count |->
        [Date    |-> i - 1,
         Product |-> RandChoice(s, i, ProductChoices),
         Region  |-> RandChoice(s, Count + i, RegionChoices),
         Sales   |-> RandInt(s, 2 * Count + i, SalesLow, SalesHigh),
         Profit  |-> RandInt(s, 3 * Count + i, ProfitLow, ProfitHigh)]]

\* Variant of load_data without the cache decorator: every call runs the body.
load_data_uncached(c, s) ==
    [frame |-> GenerateFrame(s), cache |-> <<GenerateFrame(s)>>,
     rng |-> RngAfter(s, 4 * Count)]

\* @st.cache_data load_data(): a miss runs the body and stores the frame, a
\* hit returns (a copy of) the stored frame and draws nothing.
load_data(c, s) ==
    IF c = <<>>
    THEN [frame |-> GenerateFrame(s), cache |-> <<GenerateFrame(s)>>,
          rng |-> RngAfter(s, 4 * Count)]
    ELSE [frame |-> c[1], cache |-> c, rng |-> s]

\* df["Date"] = pd.to_datetime(df["Date"]) on the copy: the column already
\* holds datetimes at midnight, so every row keeps its day.
EnsureDatetime(d) == [i \in 1..Len(d) |-> [d[i] EXCEPT !.Date = d[i].Date]]

\* ----------------------------------------------------------------- helpers
RECURSIVE SumSeq(_)
SumSeq(s) == IF s = <<>> THEN 0 ELSE Head(s) + SumSeq(Tail(s))

Column(d, field) == [i \in 1..Len(d) |-> d[i][field]]

\* Series.unique(): the distinct values of a column.
Unique(d, field) == {d[i][field] : i \in 1..Len(d)}

MinDate(d) == CHOOSE x \in Unique(d, "Date") : \A y \in Unique(d, "Date") : x <= y
MaxDate(d) == CHOOSE x \in Unique(d, "Date") : \A y \in Unique(d, "Date") : x >= y

\* ------------------------------------------------------------------ filter
\* The boolean mask of lines 70-75.
Mask(r, sd, ed, rs, ps) ==
    /\ r.Date >= sd
    /\ r.Date <= ed
    /\ r.Region \in rs
    /\ r.Product \in ps

\* Variant of Filter: the end of the date range is excluded.
FilterExclusiveEnd(d, sd, ed, rs, ps) ==
    SelectSeq(d, LAMBDA r : Mask(r, sd, ed, rs, ps) /\ r.Date < ed)

\* Variant of Filter: an inverted date range is put in order first.
FilterOrderingRange(d, sd, ed, rs, ps) ==
    IF sd > ed
    THEN SelectSeq(d, LAMBDA r : Mask(r, ed, sd, rs, ps))
    ELSE SelectSeq(d, LAMBDA r : Mask(r, sd, ed, rs, ps))

Filter(d, sd, ed, rs, ps) == SelectSeq(d, LAMBDA r : Mask(r, sd, ed, rs, ps))

\* -------------------------------------------------------------------- KPIs
\* Variant of Sum: the first row is left out.
SumFromSecond(d, field) ==
    IF Len(d) = 0 THEN 0 ELSE SumSeq(Tail(Column(d, field)))

Sum(d, field) == SumSeq(Column(d, field))

\* Series.mean() as shown by the format "{:.2f}": NaN on an empty frame,
\* otherwise the mean rounded to hundredths.
\* Variant of Mean: 0.00 rather than NaN on an empty frame.
MeanZeroOnEmpty(d, field) ==
    [nan |-> FALSE,
     hundredths |-> IF Len(d) = 0 THEN 0
                    ELSE (200 * Sum(d, field) + Len(d)) \div (2 * Len(d))]

Mean(d, field) ==
    IF Len(d) = 0
    THEN [nan |-> TRUE, hundredths |-> 0]
    ELSE [nan |-> FALSE,
          hundredths |-> (200 * Sum(d, field) + Len(d)) \div (2 * Len(d))]


\* ---------------------------------------------------------------- resample
\* Lengths of the months of 2020, the year the generated days fall in.
MonthLengths == <<31, 29, 31, 30, 31, 30, 31, 31, 30, 31, 30, 31>>

RECURSIVE MonthEndFrom(_, _, _)
\* The last day of the month holding day d; month m starts at day `first`.
MonthEndFrom(d, m, first) ==
    IF m = Len(MonthLengths) \/ d < first + MonthLengths[m]
    THEN first + MonthLengths[m] - 1
    ELSE MonthEndFrom(d, m + 1, first + MonthLengths[m])

\* resample("M"): bins labelled by the month's last day.
MonthEnd(d) == MonthEndFrom(d, 1, 0)

\* resample("W"): weeks ending on Sunday, bins closed and labelled on the
\* right.  Day 0 is a Wednesday, so the weekday of d (Monday = 0) is
\* (d + 2) % 7.
WeekEnd(d) == d + 6 - ((d + 2) % 7)

\* The label of the bin a day falls in.
Bucket(f, d) ==
    CASE f = "Daily" -> d
      [] f = "Weekly" -> WeekEnd(d)
      [] OTHER -> MonthEnd(d)

RECURSIVE ResampleBins(_, _, _, _, _)
\* One entry per bin from the bin labelled `from` to the bin labelled `to`,
\* consecutive and ascending; the sum of a bin holding no row is 0.
ResampleBins(d, field, f, from, to) ==
    IF from > to THEN <<>>
    ELSE <<[label |-> from,
            value |-> Sum(SelectSeq(d, LAMBDA r : Bucket(f, r.Date) = from), field)]>>
         \o ResampleBins(d, field, f, Bucket(f, from + 1), to)

\* Variant of Resample: bins that hold no row are left out.
ResampleSkippingEmpty(d, field, f) ==
    IF Len(d) = 0 THEN <<>>
    ELSE SelectSeq(ResampleBins(d, field, f, Bucket(f, MinDate(d)), Bucket(f, MaxDate(d))),
                   LAMBDA e : \E i \in 1..Len(d) : Bucket(f, d[i].Date) = e.label)

\* tmp[field].resample(rule).sum(): the bins between the first and the last
\* row's bin; no entry at all for an empty frame.
Resample(d, field, f) ==
    IF Len(d) = 0 THEN <<>>
    ELSE ResampleBins(d, field, f, Bucket(f, MinDate(d)), Bucket(f, MaxDate(d)))

\* Variant of cumsum: the running sum stops short of the current entry.
cumsum_exclusive(s) ==
    [i \in 1..Len(s) |->
        [label |-> s[i].label,
         value |-> SumSeq([j \in 1..(i - 1) |-> s[j].value])]]

\* Series.cumsum()
cumsum(s) ==
    [i \in 1..Len(s) |->
        [label |-> s[i].label,
         value |-> SumSeq([j \in 1..i |-> s[j].value])]]

\* Variant of ShowCumulativeStep: the option accumulates both series.
ShowCumulativeBoth(cum, st, pt) ==
    [sales_plot   |-> IF cum THEN [i \in 1..Len(st) |->
                          [label |-> st[i].label,
                           value |-> SumSeq([j \in 1..i |-> st[j].value])]] ELSE st,
     profit_trend |-> IF cum THEN [i \in 1..Len(pt) |->
                          [label |-> pt[i].label,
                           value |-> SumSeq([j \in 1..i |-> pt[j].value])]] ELSE pt]

\* Lines 98-101, the statement "if show_cumulative: ... else: ...", as its
\* effect on the two series in scope: sales_plot is assigned, profit_trend
\* is left as the aggregation step computed it.
ShowCumulativeStep(cum, st, pt) ==
    [sales_plot   |-> IF cum THEN cumsum(st) ELSE st,
     profit_trend |-> pt]

\* ---------------------------------------------------------------- group-by
RECURSIVE GroupCount(_, _, _, _)
\* Variant of GroupSum: the groups are counted (count() for sum()).
GroupCount(d, key, field, keys) ==
    IF keys = <<>> THEN <<>>
    ELSE (IF \E i \in 1..Len(d) : d[i][key] = Head(keys)
          THEN <<[key   |-> Head(keys),
                  value |-> Len(SelectSeq(d, LAMBDA r : r[key] = Head(keys)))]>>
          ELSE <<>>)
         \o GroupCount(d, key, field, Tail(keys))

RECURSIVE GroupSum(_, _, _, _)
\* groupby(key)[field].sum(): one entry per key present in the frame, in the
\* sorted order `keys` of the keys.
GroupSum(d, key, field, keys) ==
    IF keys = <<>> THEN <<>>
    ELSE (IF \E i \in 1..Len(d) : d[i][key] = Head(keys)
          THEN <<[key   |-> Head(keys),
                  value |-> Sum(SelectSeq(d, LAMBDA r : r[key] = Head(keys)), field)]>>
          ELSE <<>>)
         \o GroupSum(d, key, field, Tail(keys))

RECURSIVE InsertDescending(_, _)
InsertDescending(e, s) ==
    IF s = <<>> THEN <<e>>
    ELSE IF e.value > Head(s).value THEN <<e>> \o s
    ELSE <<Head(s)>> \o InsertDescending(e, Tail(s))

RECURSIVE InsertAscending(_, _)
InsertAscending(e, s) ==
    IF s = <<>> THEN <<e>>
    ELSE IF e.value < Head(s).value THEN <<e>> \o s
    ELSE <<Head(s)>> \o InsertAscending(e, Tail(s))

RECURSIVE sort_values_ascending(_)
\* Variant of sort_values_descending: the default, ascending order.
sort_values_ascending(s) ==
    IF s = <<>> THEN <<>>
    ELSE InsertAscending(s[Len(s)], sort_values_ascending(SubSeq(s, 1, Len(s) - 1)))

RECURSIVE sort_values_descending(_)
\* Series.sort_values(ascending=False); equal values keep their order.
sort_values_descending(s) ==
    IF s = <<>> THEN <<>>
    ELSE InsertDescending(s[Len(s)], sort_values_descending(SubSeq(s, 1, Len(s) - 1)))

\* ------------------------------------------------------------------ export
CsvHeader == <<"Date", "Product", "Region", "Sales", "Profit">>

\* to_csv(index=False): the header line, then one line per row.
to_csv(d) ==
    <<CsvHeader>> \o
    [i \in 1..Len(d) |->
        <<d[i].Date, d[i].Product, d[i].Region, d[i].Sales, d[i].Profit>>]

\* -------------------------------------------------------------- the script
\* One execution of the script with the widgets returning the given values.
Script(sd, ed, rs, ps, f, cum) ==
    /\ LET loaded == load_data(cache, rng)
       IN  /\ cache' = loaded.cache
           /\ rng' = loaded.rng
           /\ df' = EnsureDatetime(loaded.frame)
    /\ page_open' = TRUE
    /\ start_date' = sd
    /\ end_date' = ed
    /\ regions' = rs
    /\ products' = ps
    /\ freq' = f
    /\ show_cumulative' = cum
    /\ filtered_df' = Filter(df', sd, ed, rs, ps)
    /\ total_sales' = Sum(filtered_df', "Sales")
    /\ total_profit' = Sum(filtered_df', "Profit")
    /\ avg_sale' = Mean(filtered_df', "Sales")
    /\ sales_trend' = Resample(filtered_df', "Sales", f)
    /\ LET step == ShowCumulativeStep(cum, sales_trend',
                                      Resample(filtered_df', "Profit", f))
       IN  /\ sales_plot' = step.sales_plot
           /\ profit_trend' = step.profit_trend
    /\ top_products' =
          sort_values_descending(GroupSum(filtered_df', "Product", "Sales", ProductKeys))
    /\ region_revenue' = GroupSum(filtered_df', "Region", "Sales", RegionKeys)
    /\ csv' = to_csv(filtered_df')

\* Dates the date inputs can be set to: the days of the data and one day on
\* either side.
DateChoices == (0 - 1)..Count

Seeds == 0..(NumSeeds - 1)

Init ==
    /\ rng \in Seeds
    /\ cache = <<>>
    /\ page_open = FALSE
    /\ df = <<>>
    /\ start_date = 0
    /\ end_date = 0
    /\ regions = {}
    /\ products = {}
    /\ freq = "Daily"
    /\ show_cumulative = FALSE
    /\ filtered_df = <<>>
    /\ total_sales = 0
    /\ total_profit = 0
    /\ avg_sale = Mean(<<>>, "Sales")
    /\ sales_trend = <<>>
    /\ profit_trend = <<>>
    /\ sales_plot = <<>>
    /\ top_products = <<>>
    /\ region_revenue = <<>>
    /\ csv = <<>>

\* A browser session opens (or reloads) the page: every widget takes its
\* default (lines 46-66).
OpenPage ==
    LET frame == EnsureDatetime(load_data(cache, rng).frame)
    IN  Script(MinDate(frame), MaxDate(frame),
               Unique(frame, "Region"), Unique(frame, "Product"),
               "Daily", FALSE)

SetStartDate ==
    /\ page_open
    /\ \E d \in DateChoices \ {start_date} :
          Script(d, end_date, regions, products, freq, show_cumulative)

SetEndDate ==
    /\ page_open
    /\ \E d \in DateChoices \ {end_date} :
          Script(start_date, d, regions, products, freq, show_cumulative)

\* The multiselects offer the values present in the data; one interaction
\* adds or removes one of them.
ToggleRegion ==
    /\ page_open
    /\ \E r \in Unique(df, "Region") :
          Script(start_date, end_date,
                 IF r \in regions THEN regions \ {r} ELSE regions \cup {r},
                 products, freq, show_cumulative)

ToggleProduct ==
    /\ page_open
    /\ \E p \in Unique(df, "Product") :
          Script(start_date, end_date, regions,
                 IF p \in products THEN products \ {p} ELSE products \cup {p},
                 freq, show_cumulative)

SetAggregation ==
    /\ page_open
    /\ \E f \in Frequencies \ {freq} :
          Script(start_date, end_date, regions, products, f, show_cumulative)

ToggleCumulative ==
    /\ page_open
    /\ Script(start_date, end_date, regions, products, freq, ~show_cumulative)

Next ==
    \/ OpenPage
    \/ SetStartDate
    \/ SetEndDate
    \/ ToggleRegion
    \/ ToggleProduct
    \/ SetAggregation
    \/ ToggleCumulative

Spec == Init /\ [][Next]_vars

\* ------------------------------------------- the aggregation step by itself
\* A specification of lines 87-96 alone, applied to views the filter can
\* produce from the hundred generated days: rows on distinct days, spread
\* over several weeks and months.
SampleDays == {0, 4, 5, 18, 30, 31, 60, 91}
\* Amounts a sampled row may carry: the ends of both ranges, crossed.
SampleAmounts ==
    { [Sales |-> SalesLow,      Profit |-> ProfitHigh - 1],
      [Sales |-> SalesHigh - 1, Profit |-> ProfitLow],
      [Sales |-> SalesLow,      Profit |-> ProfitLow] }

RECURSIVE Ascending(_)
\* The days of a set as an ascending sequence.
Ascending(D) ==
    IF D = {} THEN <<>>
    ELSE LET m == CHOOSE x \in D : \A y \in D : x <= y
         IN  <<m>> \o Ascending(D \ {m})

\* The frames with one row on each day of D, the days ascending.
ViewsOn(days) ==
    { [i \in 1..Len(days) |->
          [Date    |-> days[i],
           Product |-> ProductChoices[1],
           Region  |-> RegionChoices[1],
           Sales   |-> am[i].Sales,
           Profit  |-> am[i].Profit]]
      : am \in [1..Len(days) -> SampleAmounts] }

SampleViews ==
    UNION { ViewsOn(Ascending(D)) :
              D \in {E \in SUBSET SampleDays : Cardinality(E) <= MaxView} }

InitResample ==
    /\ rng = 0
    /\ cache = <<>>
    /\ page_open = FALSE
    /\ df = <<>>
    /\ start_date = 0
    /\ end_date = 0
    /\ regions = {}
    /\ products = {}
    /\ freq \in Frequencies
    /\ show_cumulative = FALSE
    /\ filtered_df \in SampleViews
    /\ total_sales = 0
    /\ total_profit = 0
    /\ avg_sale = Mean(<<>>, "Sales")
    /\ sales_trend = <<>>
    /\ profit_trend = <<>>
    /\ sales_plot = <<>>
    /\ top_products = <<>>
    /\ region_revenue = <<>>
    /\ csv = <<>>

\* Lines 87-96: "Aggregate according to frequency".
AggregateTrends ==
    /\ sales_trend' = Resample(filtered_df, "Sales", freq)
    /\ profit_trend' = Resample(filtered_df, "Profit", freq)
    /\ UNCHANGED <<rng, cache, page_open, df, widgets, filtered_df, total_sales,
                   total_profit, avg_sale, sales_plot, top_products,
                   region_revenue, csv>>

NextResample == AggregateTrends

SpecResample == InitResample /\ [][NextResample]_vars

\* ================================================================== claims
\* Reference notions the properties are stated with.

\* The rows of a frame, as a set.
Rows(d) == {d[i] : i \in 1..Len(d)}

RECURSIVE TotalOver(_, _)
\* The sum of a field over a set of rows.
TotalOver(S, field) ==
    IF S = {} THEN 0
    ELSE LET r == CHOOSE x \in S : TRUE
         IN  r[field] + TotalOver(S \ {r}, field)

RECURSIVE ValuesUpTo(_, _)
\* The sum of the first n values of a series.
ValuesUpTo(s, n) == IF n = 0 THEN 0 ELSE ValuesUpTo(s, n - 1) + s[n].value

\* A row satisfies the three predicates of the criteria in force.
Matches(r) ==
    /\ start_date <= r.Date
    /\ ~(end_date < r.Date)
    /\ \E x \in regions : x = r.Region
    /\ \E x \in products : x = r.Product

\* ---- C1
\* C1: the view holds exactly the rows of the base set whose date lies in
\* [start_date, end_date] and whose region and product are selected, each
\* once and in the base set's order, and filtering the view again with the
\* same criteria gives the same view.
C1_FilterExact ==
    page_open =>
        /\ \A r \in Rows(df) : (r \in Rows(filtered_df)) <=> Matches(r)
        /\ Rows(filtered_df) \subseteq Rows(df)
        /\ \A i, j \in 1..Len(filtered_df) :
              i < j => filtered_df[i].Date < filtered_df[j].Date
        /\ Filter(filtered_df, start_date, end_date, regions, products) = filtered_df

\* A view that keeps a row dated exactly end_date and one dated exactly
\* start_date, and drops a row whose date is in range.
C1_Witness ==
    /\ page_open
    /\ start_date < end_date
    /\ \E r \in Rows(filtered_df) : r.Date = end_date
    /\ \E r \in Rows(filtered_df) : r.Date = start_date
    /\ \E r \in Rows(df) \ Rows(filtered_df) :
          start_date <= r.Date /\ r.Date <= end_date

\* ---- C2
\* C2: with start_date after end_date, or no region selected, or no product
\* selected, the run completes (the export is produced) and the view is
\* empty.
C2_DegenerateCriteriaEmptyView ==
    (page_open /\ (start_date > end_date \/ regions = {} \/ products = {}))
        => (filtered_df = <<>> /\ csv = <<CsvHeader>>)

\* An inverted range that lies inside the data, with every region and
\* product still selected.
C2_Witness ==
    /\ page_open
    /\ start_date > end_date
    /\ start_date <= Count - 1
    /\ end_date >= 0
    /\ regions = Unique(df, "Region")
    /\ products = Unique(df, "Product")

\* ---- C3
\* C3: total_sales is the sum of Sales over the rows of the view and
\* total_profit the sum of Profit over them; both are 0 on the empty view.
C3_TotalsAreSums ==
    page_open =>
        /\ total_sales = TotalOver(Rows(filtered_df), "Sales")
        /\ total_profit = TotalOver(Rows(filtered_df), "Profit")
        /\ (filtered_df = <<>> => (total_sales = 0 /\ total_profit = 0))

C3_Witness ==
    /\ page_open
    /\ Len(filtered_df) = 2
    /\ total_sales = filtered_df[1].Sales + filtered_df[2].Sales
    /\ total_profit = filtered_df[1].Profit + filtered_df[2].Profit

\* ---- C5
\* C5: with show_cumulative set, the plotted sales series has the bins of
\* the resampled series and each of its values is the sum of the resampled
\* values up to and including that bin, so its last value is the sum of the
\* whole resampled series; without it, the plotted series is the resampled
\* series.
C5_CumulativeIsRunningSum ==
    page_open =>
        IF show_cumulative
        THEN /\ Len(sales_plot) = Len(sales_trend)
             /\ \A i \in 1..Len(sales_trend) :
                   /\ sales_plot[i].label = sales_trend[i].label
                   /\ sales_plot[i].value = ValuesUpTo(sales_trend, i)
             /\ sales_trend # <<>> =>
                   sales_plot[Len(sales_plot)].value = total_sales
        ELSE sales_plot = sales_trend

\* A cumulative series over three daily bins whose middle bin is empty.
C5_Witness ==
    /\ page_open
    /\ show_cumulative
    /\ Len(sales_trend) = 3
    /\ sales_trend[2].value = 0
    /\ sales_plot[3].value = sales_trend[1].value + sales_trend[3].value

\* ---- C6
\* C6: the sales sums of the product groups add up to total_sales, and so
\* do the sales sums of the region groups; every row of the view belongs to
\* exactly one group of each breakdown.
C6_GroupSumsAddUp ==
    page_open =>
        /\ ValuesUpTo(top_products, Len(top_products)) = total_sales
        /\ ValuesUpTo(region_revenue, Len(region_revenue)) = total_sales
        /\ \A r \in Rows(filtered_df) :
              /\ Cardinality({i \in 1..Len(top_products) :
                                 top_products[i].key = r.Product}) = 1
              /\ Cardinality({i \in 1..Len(region_revenue) :
                                 region_revenue[i].key = r.Region}) = 1

\* A view with two rows in one product group and a third row in another.
C6_Witness ==
    /\ page_open
    /\ Len(filtered_df) = 3
    /\ Len(top_products) = 2
    /\ Len(region_revenue) = 3

\* ---- C7
\* C7: once the page has been opened, every further run of the script works
\* on the same base record set: the cached frame is the one the first run
\* generated, no run draws from the generator again, and no run changes the
\* cached frame.
C7_BaseRecordSetStable ==
    [][ /\ page_open => (df' = df /\ cache' = cache /\ rng' = rng)
        /\ cache' = <<df'>> ]_vars

\* A state several interactions after the first run.
C7_Witness ==
    /\ page_open
    /\ cache = <<df>>
    /\ show_cumulative
    /\ freq = "Monthly"
    /\ regions # Unique(df, "Region")
    /\ start_date > 0

\* ---- C8
\* C8: on an empty view both totals are 0, the average is the not-a-number
\* sentinel, both time series (and the plotted one) are empty, both group
\* aggregates are empty, and the run reaches the export.
C8_EmptyViewDegradesGracefully ==
    (page_open /\ filtered_df = <<>>) =>
        /\ total_sales = 0
        /\ total_profit = 0
        /\ avg_sale.nan
        /\ sales_trend = <<>>
        /\ profit_trend = <<>>
        /\ sales_plot = <<>>
        /\ top_products = <<>>
        /\ region_revenue = <<>>
        /\ csv = <<CsvHeader>>

\* An empty view of a range that holds rows, cumulative weekly display.
C8_Witness ==
    /\ page_open
    /\ filtered_df = <<>>
    /\ start_date <= end_date
    /\ start_date >= 0
    /\ end_date <= Count - 1
    /\ show_cumulative
    /\ freq = "Weekly"

\* ---- C9
\* C9: a run that differs from the previous one only in show_cumulative
\* leaves the profit series, the three KPIs, both group aggregates and the
\* filtered view as they were; and the profit series is never accumulated:
\* its values add up to total_profit.
C9_CumulativeTouchesOnlySalesPlot ==
    [][ /\ (/\ page_open
            /\ show_cumulative' # show_cumulative
            /\ <<start_date, end_date, regions, products, freq>>' =
                   <<start_date, end_date, regions, products, freq>>)
           => /\ profit_trend' = profit_trend
              /\ sales_trend' = sales_trend
              /\ <<total_sales, total_profit, avg_sale>>' =
                     <<total_sales, total_profit, avg_sale>>
              /\ top_products' = top_products
              /\ region_revenue' = region_revenue
              /\ filtered_df' = filtered_df
        /\ ValuesUpTo(profit_trend', Len(profit_trend')) = total_profit' ]_vars

\* Cumulative display of a view whose profit series has two non-zero bins.
C9_Witness ==
    /\ page_open
    /\ show_cumulative
    /\ Len(profit_trend) >= 2
    /\ profit_trend[1].value > 0
    /\ profit_trend[2].value > 0
    /\ sales_plot # sales_trend

\* ---- C10
\* C10: the product ranking lists its groups in non-increasing order of
\* their sales sum, and the region breakdown lists its groups in ascending
\* order of the region key.
KeyRank(k, keys) == CHOOSE i \in 1..Len(keys) : keys[i] = k

C10_RankingAndBreakdownOrder ==
    page_open =>
        /\ \A i \in 1..(Len(top_products) - 1) :
              top_products[i].value >= top_products[i + 1].value
        /\ \A i \in 1..(Len(region_revenue) - 1) :
              KeyRank(region_revenue[i].key, RegionKeys) <
                  KeyRank(region_revenue[i + 1].key, RegionKeys)

\* A ranking of three product groups that is not in key order, beside a
\* breakdown of three regions.
C10_Witness ==
    /\ page_open
    /\ Len(top_products) = 3
    /\ KeyRank(top_products[1].key, ProductKeys) >
           KeyRank(top_products[2].key, ProductKeys)
    /\ top_products[2].value > top_products[3].value
    /\ Len(region_revenue) = 3

\* ---- C4
\* The calendar, stated without the arithmetic of the model: whether a bin
\* of the frequency ends on day e (Sundays are the days 4, 11, 18, ...; the
\* months of the data end on 31 January, 29 February, 31 March, 30 April).
IsBinEnd(f, e) ==
    CASE f = "Daily" -> TRUE
      [] f = "Weekly" -> e % 7 = 4
      [] f = "Monthly" -> e \in {30, 30 + 29, 30 + 29 + 31, 30 + 29 + 31 + 30}

\* Day d belongs to the bin ending on day e: e is the first bin end on or
\* after d.
InBin(f, d, e) ==
    /\ IsBinEnd(f, e)
    /\ d <= e
    /\ \A x \in d..(e - 1) : ~IsBinEnd(f, x)

\* What a resampled series of a view must be.
ResampleContract(view, series, field, f) ==
    IF view = <<>> THEN series = <<>>
    ELSE /\ series # <<>>
         \* ascending, and no bin between two neighbours is left out
         /\ \A i \in 1..(Len(series) - 1) :
               /\ series[i].label < series[i + 1].label
               /\ \A x \in (series[i].label + 1)..(series[i + 1].label - 1) :
                     ~IsBinEnd(f, x)
         \* from the earliest row's bin to the latest row's bin
         /\ InBin(f, view[1].Date, series[1].label)
         /\ InBin(f, view[Len(view)].Date, series[Len(series)].label)
         \* every entry is a bin, valued by the sum over its rows (0 if none)
         /\ \A i \in 1..Len(series) :
               /\ IsBinEnd(f, series[i].label)
               /\ series[i].value =
                     TotalOver({r \in Rows(view) : InBin(f, r.Date, series[i].label)},
                               field)
         \* every row is in exactly one bin of the series
         /\ \A r \in Rows(view) :
               Cardinality({i \in 1..Len(series) :
                               InBin(f, r.Date, series[i].label)}) = 1

\* C4: for each frequency, the series computed from a view puts every row
\* in exactly one calendar bin by its date, values each bin with the sum of
\* the field over the rows in it, holds every bin between the earliest and
\* the latest bin of the view (an empty one with value 0), and is ascending.
C4_ResampleFillsAndOrders ==
    [][ /\ ResampleContract(filtered_df', sales_trend', "Sales", freq')
        /\ ResampleContract(filtered_df', profit_trend', "Profit", freq') ]_vars

\* A monthly series January-February-March whose February bin is empty.
C4_Witness ==
    /\ freq = "Monthly"
    /\ Len(filtered_df) = 2
    /\ Len(sales_trend) = 3
    /\ sales_trend[2].value = 0
    /\ sales_trend[1].value > 0
    /\ profit_trend[3].value > 0

=============================================================================
